---- MODULE Spec2Model ----
(***************************************************************************)
(* State-machine model of src/draft_helper.py: the interactive draft       *)
(* helper.  Strings are sequences of one-character strings so that         *)
(* normalize_name, last_name, the command dispatch of main and the two     *)
(* tiers of mark_drafted are computed character by character, as the code  *)
(* computes them.  The DataFrame is a sequence of rows; the DataFrame      *)
(* index 0..N-1 of the source is 1..N here.  Characters are ASCII:         *)
(* letters, digits, blanks (space, tab), the apostrophe, other punctuation;*)
(* and one digit outside ASCII, the superscript two.                       *)
(* An exception that main does not catch ends the program: pc = "crashed". *)
(* Spec is the whole program on a fixed file; NameSpec applies the Name    *)
(* Normalizer to drawn names; ResolveSpec removes a drawn name by its full *)
(* name.                                                                   *)
(***************************************************************************)
EXTENDS Integers, Sequences, FiniteSets, TLC

(***************************************************************************)
(* Bounds of the model.                                                    *)
(***************************************************************************)
\* The longest name, in characters, drawn for the Name Normalizer.
MaxNameLen == 4
\* How many rows of the input file are loaded.
NPlayers == 3
\* The largest count typed after `undo`.
MaxUndo == 2
\* The largest n for which topAvailable(n, pos) is examined by the properties.
MaxN == 3

(***************************************************************************)
(* Characters and strings.                                                 *)
(***************************************************************************)
Lowers == <<"a","b","c","d","e","f","g","h","i","j","k","l","m",
            "n","o","p","q","r","s","t","u","v","w","x","y","z">>
Uppers == <<"A","B","C","D","E","F","G","H","I","J","K","L","M",
            "N","O","P","Q","R","S","T","U","V","W","X","Y","Z">>
Digits == <<"0","1","2","3","4","5","6","7","8","9">>

Range(s) == {s[i] : i \in DOMAIN s}

IsLower(c) == c \in Range(Lowers)
IsUpper(c) == c \in Range(Uppers)
\* str.isalpha on one character
IsAlpha(c) == IsLower(c) \/ IsUpper(c)
\* whitespace: what \s, str.strip() and str.split() treat as blank
IsSpace(c) == c \in {" ", "\t"}
\* the character U+00B2 (superscript two): str.isdigit() accepts it, int() does not
SuperscriptTwo == "sup2"

\* str.isdigit on one character
IsDigitChar(c) == c \in Range(Digits) \/ c = SuperscriptTwo

LowerChar(c) == IF IsUpper(c) THEN Lowers[CHOOSE i \in DOMAIN Uppers : Uppers[i] = c] ELSE c
UpperChar(c) == IF IsLower(c) THEN Uppers[CHOOSE i \in DOMAIN Lowers : Lowers[i] = c] ELSE c

\* str.lower() / str.upper()
Lower(s) == [i \in DOMAIN s |-> LowerChar(s[i])]
Upper(s) == [i \in DOMAIN s |-> UpperChar(s[i])]

RECURSIVE LStrip(_)
LStrip(s) == IF s # <<>> /\ IsSpace(Head(s)) THEN LStrip(Tail(s)) ELSE s

RECURSIVE RStrip(_)
RStrip(s) == IF s # <<>> /\ IsSpace(s[Len(s)]) THEN RStrip(SubSeq(s, 1, Len(s) - 1)) ELSE s

\* str.strip()
Strip(s) == RStrip(LStrip(s))

\* the first maximal run of non-blank characters of s (s not starting blank)
RECURSIVE FirstToken(_)
FirstToken(s) ==
    IF s = <<>> \/ IsSpace(Head(s)) THEN <<>> ELSE <<Head(s)>> \o FirstToken(Tail(s))

\* str.split(): the maximal runs of non-blank characters
RECURSIVE Split(_)
Split(s) ==
    LET t == LStrip(s)
    IN  IF t = <<>> THEN <<>>
        ELSE LET w == FirstToken(t)
             IN  <<w>> \o Split(SubSeq(t, Len(w) + 1, Len(t)))

\* ' '.join(toks)
RECURSIVE Join(_)
Join(toks) ==
    IF toks = <<>> THEN <<>>
    ELSE IF Len(toks) = 1 THEN toks[1]
    ELSE toks[1] \o <<" ">> \o Join(Tail(toks))

\* cmd.split(None, 1)[1].strip(): what follows the first token and the blanks after it
RestAfterFirst(s) ==
    LET t == LStrip(s)
        w == FirstToken(t)
    IN  Strip(SubSeq(t, Len(w) + 1, Len(t)))

\* str.startswith
StartsWith(s, p) == Len(s) >= Len(p) /\ SubSeq(s, 1, Len(p)) = p

\* needle in hay (str.contains with regex=False)
Contains(hay, needle) ==
    \E i \in 0..(Len(hay) - Len(needle)) : SubSeq(hay, i + 1, i + Len(needle)) = needle

\* str.isdigit()
IsDigitStr(s) == s # <<>> /\ \A i \in DOMAIN s : IsDigitChar(s[i])

\* int(s) raises ValueError on a string of digits that are not all decimal
IntRaises(s) == \E i \in DOMAIN s : s[i] \notin Range(Digits)

DigitVal(c) == (CHOOSE i \in DOMAIN Digits : Digits[i] = c) - 1

\* int(s) for a string of decimal digits
RECURSIVE IntOf(_)
IntOf(s) == IF s = <<>> THEN 0 ELSE 10 * IntOf(SubSeq(s, 1, Len(s) - 1)) + DigitVal(s[Len(s)])

(***************************************************************************)
(* Name Normalizer.                                                        *)
(***************************************************************************)
\* the suffix tokens of normalize_name
SuffixTokens ==
    { <<"j","r">>, <<"s","r">>, <<"i","i">>, <<"i","i","i">>, <<"i","v">>, <<"v">> }

\* the characters re.sub(r"[^a-zA-Z'\s]", '', name) keeps
KeptChar(c) == IsAlpha(c) \/ c = "'" \/ IsSpace(c)

\* the suffix set without the roman numerals
IsSuffixTokenNoRoman(t) == t \in { <<"j","r">>, <<"s","r">> }

IsSuffixToken(t) == t \in SuffixTokens

\* the suffix tokens dropped before the other characters are removed
normalize_name_suffix_first(name) ==
    LET n == Lower(Strip(name))
        toks == SelectSeq(Split(n), LAMBDA t : ~IsSuffixToken(t))
    IN  Join([i \in DOMAIN toks |-> SelectSeq(toks[i], KeptChar)])

normalize_name(name) ==
    LET n == Lower(Strip(SelectSeq(name, KeptChar)))
        toks == SelectSeq(Split(n), LAMBDA t : ~IsSuffixToken(t))
    IN  Join(toks)

last_name(name) ==
    LET n == normalize_name(name)
        parts == Split(n)
    IN  IF parts # <<>> THEN parts[Len(parts)] ELSE n

(***************************************************************************)
(* The input file.  FileRows is the file's rows in file order; a row's     *)
(* field is read only when the file has that column.  NaN is what          *)
(* pd.to_numeric(errors='coerce') and an empty cell give.                  *)
(* The rows: "Di Mabo", "Al Bo", "Cy Bo Jr.", "Ed O'Bo", "Fy Bo",          *)
(* "Al Mabo II".                                                           *)
(***************************************************************************)
NaN == -1

AllColumns == {"Full Name", "Position", "Team", "AdjPts", "ProjPts", "Rank"}

FileRows ==
    << [name |-> <<"D","i"," ","M","a","b","o">>, position |-> <<"R","B">>,
        adj |-> 20, proj |-> NaN, rank |-> 3],
       [name |-> <<"A","l"," ","B","o">>, position |-> <<"Q","B">>,
        adj |-> 30, proj |-> 10, rank |-> 2],
       [name |-> <<"C","y"," ","B","o"," ","J","r",".">>, position |-> <<"r","b">>,
        adj |-> 20, proj |-> 25, rank |-> 1],
       [name |-> <<"E","d"," ","O","'","B","o">>, position |-> <<"W","R">>,
        adj |-> NaN, proj |-> 15, rank |-> NaN],
       [name |-> <<"F","y"," ","B","o">>, position |-> <<"R","B">>,
        adj |-> 10, proj |-> 25, rank |-> 4],
       [name |-> <<"A","l"," ","M","a","b","o"," ","I","I">>, position |-> <<"T","E">>,
        adj |-> 10, proj |-> 5, rank |-> 5] >>

Min(a, b) == IF a <= b THEN a ELSE b

\* the rows read by pd.read_csv
NumRows == Min(NPlayers, Len(FileRows))
RowIds == 1..NumRows

(***************************************************************************)
(* Sorting and selection, as pandas computes them.                         *)
(***************************************************************************)
\* a sorts strictly before b (both not NaN)
Before(a, b, asc) == IF asc THEN a < b ELSE a > b

MinOf(S) == CHOOSE x \in S : \A y \in S : x <= y

\* the members of S no other member sorts strictly before
Firsts(S, kv, asc) == {x \in S : \A y \in S : ~Before(kv[y], kv[x], asc)}

\* a stable sort (mergesort) of S by kv: ties keep index order
RECURSIVE StableOrder(_, _, _)
StableOrder(S, kv, asc) ==
    IF S = {} THEN <<>>
    ELSE LET x == MinOf(Firsts(S, kv, asc))
         IN  <<x>> \o StableOrder(S \ {x}, kv, asc)

\* an unstable sort (the default quicksort) of S by kv: ties in any order
RECURSIVE AnyOrders(_, _, _)
AnyOrders(S, kv, asc) ==
    IF S = {} THEN {<<>>}
    ELSE UNION { {<<x>> \o t : t \in AnyOrders(S \ {x}, kv, asc)} : x \in Firsts(S, kv, asc) }

RECURSIVE IndexOrder(_)
IndexOrder(S) == IF S = {} THEN <<>> ELSE <<MinOf(S)>> \o IndexOrder(S \ {MinOf(S)})

NonNaN(S, kv) == {i \in S : kv[i] # NaN}

\* sort_values(by=..., ascending=asc) with the default kind and na_position='last'
SortValues(S, kv, asc) ==
    { nn \o IndexOrder(S \ NonNaN(S, kv)) : nn \in AnyOrders(NonNaN(S, kv), kv, asc) }

Head_n(s, n) == SubSeq(s, 1, Min(n, Len(s)))

\* nsmallest(n, col) when asc, nlargest(n, col) otherwise, keep='first'
SelectN(S, n, kv, asc) ==
    IF n >= Cardinality(S)
    THEN {Head_n(s, n) : s \in SortValues(S, kv, asc)}
    ELSE LET st == StableOrder(NonNaN(S, kv), kv, asc)
         IN  {Head_n(Head_n(st, n) \o IndexOrder(S \ NonNaN(S, kv)), n)}

(***************************************************************************)
(* State.                                                                  *)
(***************************************************************************)
VARIABLES
    pc,         \* "start", "loop" (input("> ")), "disambig" (input("# > ")),
                \* "done" (loop left), "load_error", "crashed" (uncaught exception)
    header,     \* the recognised columns the input file has, after the rename
    sort_key,   \* load_df's sort_key: "AdjPts", "ProjPts" or "None"
    df,         \* the DataFrame: rows in sorted order, with the helper columns
    available,  \* df['__available'], by row
    history,    \* main's history stack of removed row indices
    cands,      \* mark_drafted's tmp: the numbered candidates of an open dialogue
    out,        \* what the last command printed or wrote: a message tag (the name
                \* of the exception when one ended the program), the rows
                \* show_top printed or `save` wrote, the number of rows restored,
                \* the columns of the file written
    rt,         \* observer of the last two commands: a removal, then `undo` once
    nn          \* the Name Normalizer called on its own: the name passed and what
                \* normalize_name and last_name returned for it

vars == <<pc, header, sort_key, df, available, history, cands, out, rt, nn>>

NoRt == [phase |-> "none"]

\* no call yet on the name x, to be followed by the whitespace and suffix tail;
\* a result is a sequence of one string once the call has returned
NameCalls(x) ==
    [x |-> x, tail |-> <<>>, norm |-> <<>>, again |-> <<>>, lname |-> <<>>,
     sfx |-> <<>>, lsfx |-> <<>>]

\* cols: the columns of the file a `save` wrote; back: the rows of the
\* "Restored" lines an `undo` printed, in the order printed
Said(msg, top, n) == [msg |-> msg, top |-> top, n |-> n, cols |-> {}, back |-> <<>>]

(***************************************************************************)
(* Player Pool: load_df and show_top.                                      *)
(***************************************************************************)
\* the value of column col in a row
Cell(row, col) ==
    IF col = "AdjPts" THEN row.adj ELSE IF col = "ProjPts" THEN row.proj ELSE row.rank

\* the preference reversed: projected points before adjusted points
ChooseSortKeyProjFirst(cols) ==
    IF "ProjPts" \in cols THEN "ProjPts"
    ELSE IF "AdjPts" \in cols THEN "AdjPts"
    ELSE "None"

\* sort_key = 'AdjPts' if present, else 'ProjPts' if present, else None
ChooseSortKey(cols) ==
    IF "AdjPts" \in cols THEN "AdjPts"
    ELSE IF "ProjPts" \in cols THEN "ProjPts"
    ELSE "None"

\* one row of df with its helper columns __name_norm and __lname
WithHelpers(row) ==
    [name |-> row.name, position |-> row.position,
     adj |-> row.adj, proj |-> row.proj, rank |-> row.rank,
     name_norm |-> normalize_name(row.name), lname |-> last_name(row.name)]

\* the DataFrames df.sort_values(by=sort_key, ascending=False).reset_index(drop=True)
\* can give, the helper columns added
LoadedFrames(sk) ==
    LET kv == [i \in RowIds |-> Cell(FileRows[i], sk)]
    IN  { [j \in RowIds |-> WithHelpers(FileRows[ord[j]])] :
            ord \in SortValues(RowIds, kv, FALSE) }

\* whether load_df raises: no points column (ValueError), no 'Full Name' (KeyError)
LoadRaises(cols) == ChooseSortKey(cols) = "None" \/ "Full Name" \notin cols

KeyVals(frame, col) == [i \in DOMAIN frame |-> Cell(frame[i], col)]

\* the availability filter left out
AllRowsOf(frame, av) == DOMAIN frame

\* df[df['__available']]
AvailRows(frame, av) == {i \in DOMAIN frame : av[i]}

\* avail[avail['Position'].str.upper() == pos.upper()]
PosRows(frame, S, pos) == {i \in S : Upper(frame[i].position) = Upper(pos)}

\* show_top raises KeyError when it filters by a Position column the frame lacks
ShowTopRaises(cols, pos) == pos # <<>> /\ "Position" \notin cols

\* show_top ordering the overall view by the sort key even when Rank is present
show_top_by_points(frame, cols, sk, av, n, pos) ==
    IF pos # <<>>
    THEN SelectN(PosRows(frame, AvailRows(frame, av), pos), n, KeyVals(frame, sk), FALSE)
    ELSE SelectN(AvailRows(frame, av), n, KeyVals(frame, sk), FALSE)

\* the rows show_top(df, sort_key, n, pos) can print, in the order printed, for
\* the frame, its columns cols, sort key sk and availability av; pos = <<>>
\* stands for pos=None
show_top(frame, cols, sk, av, n, pos) ==
    IF pos # <<>>
    THEN SelectN(PosRows(frame, AvailRows(frame, av), pos), n, KeyVals(frame, sk), FALSE)
    ELSE IF "Rank" \in cols
         THEN SelectN(AvailRows(frame, av), n, KeyVals(frame, "Rank"), TRUE)
         ELSE SelectN(AvailRows(frame, av), n, KeyVals(frame, sk), FALSE)

\* show_top on the current pool with availability av
TopAvailable(av, n, pos) == show_top(df, header, sort_key, av, n, pos)

\* main's show_top(df, sort_key, n=3) and show_top(df, sort_key, n=5, pos=...)
TopOverallN == 3
TopPosN == 5

Init ==
    /\ pc = "start"
    /\ header \in SUBSET AllColumns
    /\ sort_key = "None"
    /\ df = <<>>
    /\ available = <<>>
    /\ history = <<>>
    /\ cands = <<>>
    /\ out = Said("none", <<>>, 0)
    /\ rt = NoRt
    /\ nn = NameCalls(<<>>)

\* main: load_df(path) fails
LoadFail ==
    /\ pc = "start"
    /\ LoadRaises(header)
    /\ pc' = "load_error"
    /\ sort_key' = ChooseSortKey(header)
    /\ UNCHANGED <<nn, header, df, available, history, cands, out, rt>>

\* main: load_df(path), the banner, show_top(df, sort_key, n=3), history = []
Load ==
    /\ pc = "start"
    /\ ~LoadRaises(header)
    /\ sort_key' = ChooseSortKey(header)
    /\ df' \in LoadedFrames(sort_key')
    /\ available' = [i \in RowIds |-> TRUE]
    /\ history' = <<>>
    /\ \E top \in show_top(df', header, sort_key', available', TopOverallN, <<>>) :
          out' = Said("loaded", top, 0)
    /\ pc' = "loop"
    /\ UNCHANGED <<nn, header, cands, rt>>

(***************************************************************************)
(* Matcher: the candidate selection of mark_drafted.                       *)
(***************************************************************************)
\* the test without `' ' in q`
Tier1AppliesAnyLetter(q) == \E i \in DOMAIN q : IsAlpha(q[i])

\* ' ' in q and any(ch.isalpha() for ch in q)
Tier1Applies(q) == " " \in Range(q) /\ \E i \in DOMAIN q : IsAlpha(q[i])

\* df['__available'] & df['__name_norm'].str.contains(qn, regex=False)
Tier1Rows(frame, av, qn) ==
    {i \in AvailRows(frame, av) : Contains(frame[i].name_norm, qn)}

\* re.sub(r"[^a-zA-Z]", '', q).lower()
LettersOnly(q) == Lower(SelectSeq(q, IsAlpha))

\* df['__available'] & (df['__lname'] == ql)
Tier2Rows(frame, av, ql) ==
    {i \in AvailRows(frame, av) : frame[i].lname = ql}

\* mark_drafted's candidates for query, in frame order
Candidates(frame, av, query) ==
    LET q == Strip(query)
        first == IF Tier1Applies(q) THEN Tier1Rows(frame, av, normalize_name(q)) ELSE {}
    IN  IF first # {} THEN IndexOrder(first)
        ELSE IndexOrder(Tier2Rows(frame, av, LettersOnly(q)))

\* the columns the "Removed from available" and "Restored" lines read with df.loc
PrintCols == {"Full Name", "Position", "Team"}

(***************************************************************************)
(* Command Loop: the lines typed and main's dispatch.                      *)
(***************************************************************************)
KW_TOP == <<"T","O","P">>
KW_LIST_ == <<"L","I","S","T"," ">>
KW_UNDO == <<"U","N","D","O">>
KW_UNDO_ == <<"U","N","D","O"," ">>
KW_REMOVE_ == <<"R","E","M","O","V","E"," ">>
KW_RM_ == <<"R","M"," ">>
KW_SAVE_ == <<"S","A","V","E"," ">>
PosCodes == { <<"Q","B">>, <<"R","B">>, <<"W","R">>, <<"T","E">>, <<"K">>, <<"D","S","T">> }
HelpWords == { <<"H","E","L","P">>, <<"H">>, <<"?">> }
QuitWords == { <<"Q","U","I","T">>, <<"E","X","I","T">>, <<"Q">> }

\* which branch of main's loop takes the stripped line cmd
Kind(cmd) ==
    LET up == Upper(cmd)
    IN  IF cmd = <<>> THEN "empty"
        ELSE IF up \in PosCodes THEN "pos"
        ELSE IF up = KW_TOP THEN "top"
        ELSE IF StartsWith(up, KW_LIST_) THEN "list"
        ELSE IF up = KW_UNDO \/ StartsWith(up, KW_UNDO_) THEN "undo"
        ELSE IF StartsWith(up, KW_REMOVE_) \/ StartsWith(up, KW_RM_) THEN "remove"
        ELSE IF StartsWith(up, KW_SAVE_) THEN "save"
        ELSE IF up \in HelpWords THEN "help"
        ELSE IF up \in QuitWords THEN "quit"
        ELSE "name"

\* the name queries typed: "bo", "mab", "Al Bo", "Mabo", "zz", "b o", "o'bo", "bo jr"
Queries ==
    { <<"b","o">>, <<"m","a","b">>, <<"A","l"," ","B","o">>, <<"M","a","b","o">>,
      <<"z","z">>, <<"b"," ","o">>, <<"o","'","b","o">>, <<"b","o"," ","j","r">> }

\* the queries typed after `remove`: "bo", "mab", "Al Bo", "zz"
RemoveQueries == { <<"b","o">>, <<"m","a","b">>, <<"A","l"," ","B","o">>, <<"z","z">> }

\* the lines typed at the "> " prompt
Lines ==
    { <<>>, <<" "," ">>, <<"r","b">>, <<"Q","B">>, <<"k">>, <<"t","o","p">>, <<" ","T","o","p"," ">>, <<"l","i","s","t"," ","w","r">>, <<"u","n","d","o">>, <<"u","n","d","o"," ","x">>,
      <<"s","a","v","e"," ","f">>, <<"h","e","l","p">>, <<"?">>, <<"q","u","i","t">>, <<"q">>, <<"r","m"," "," ","B","-","O","!">> }
    \cup { <<"u","n","d","o"," ">> \o <<Digits[n + 1]>> : n \in 0..MaxUndo }
    \cup { <<"u","n","d","o"," ",SuperscriptTwo>> }
    \cup { <<"r","e","m","o","v","e"," ">> \o q : q \in RemoveQueries }
    \cup Queries

\* the typed lines main's loop dispatches to each branch
LinesOf(kind) == {line \in Lines : Kind(Strip(line)) = kind}
EmptyLines == LinesOf("empty")
PosLines == LinesOf("pos")
TopLines == LinesOf("top")
ListLines == LinesOf("list")
UndoLines == LinesOf("undo")
RemoveLines == LinesOf("remove")
SaveLines == LinesOf("save")
HelpLines == LinesOf("help")
QuitLines == LinesOf("quit")
NameLines == LinesOf("name")

\* the lines typed at the "# > " prompt
Selections ==
    { <<>>, <<"x">>, <<"-","1">>, <<SuperscriptTwo>> }
    \cup { <<Digits[k + 1]>> : k \in 0..(NumRows + 1) }

(***************************************************************************)
(* Command Loop: one action per branch of main's loop.                     *)
(***************************************************************************)
\* main's show_top call after a command: the rows it prints with availability av
Shown(av, n, pos, msg, k) ==
    \E top \in TopAvailable(av, n, pos) :
        out' = Said(IF top = <<>> /\ msg = "top" THEN "no_players" ELSE msg, top, k)

\* `if not cmd: continue`
CmdEmpty ==
    /\ pc = "loop"
    /\ EmptyLines # {}
    /\ out' = Said("none", <<>>, 0)
    /\ rt' = NoRt
    /\ UNCHANGED <<pc, nn, header, sort_key, df, available, history, cands>>

\* show_top(df, sort_key, n=5, pos=...) of the position and list branches
ShowPosition(pos) ==
    /\ rt' = NoRt
    /\ UNCHANGED <<nn, header, sort_key, df, available, history, cands>>
    /\ IF ShowTopRaises(header, pos)
       THEN /\ pc' = "crashed"
            /\ out' = Said("KeyError", <<>>, 0)
       ELSE /\ pc' = pc
            /\ Shown(available, TopPosN, pos, "top", 0)

\* a position code: show_top(df, sort_key, n=5, pos=up)
CmdPosition ==
    /\ pc = "loop"
    /\ \E line \in PosLines :
          /\ ShowPosition(Upper(Strip(line)))

\* list <pos>
CmdList ==
    /\ pc = "loop"
    /\ \E line \in ListLines :
          /\ ShowPosition(RestAfterFirst(Upper(Strip(line))))

\* top: show_top(df, sort_key, n=3)
CmdTop ==
    /\ pc = "loop"
    /\ TopLines # {}
    /\ Shown(available, TopOverallN, <<>>, "top", 0)
    /\ rt' = NoRt
    /\ UNCHANGED <<pc, nn, header, sort_key, df, available, history, cands>>

\* whether the undo line cmd has an argument that is not a number
UndoUsage(cmd) == StartsWith(Upper(cmd), KW_UNDO_) /\ ~IsDigitStr(RestAfterFirst(cmd))

\* whether int(arg) of the undo line cmd raises ValueError
UndoRaises(cmd) ==
    /\ StartsWith(Upper(cmd), KW_UNDO_)
    /\ IsDigitStr(RestAfterFirst(cmd))
    /\ IntRaises(RestAfterFirst(cmd))

\* the count of the undo line cmd: 1, or int(arg) when arg.isdigit()
UndoCount(cmd) ==
    IF StartsWith(Upper(cmd), KW_UNDO_) /\ IsDigitStr(RestAfterFirst(cmd))
           /\ ~IntRaises(RestAfterFirst(cmd))
    THEN IntOf(RestAfterFirst(cmd))
    ELSE 1

\* UndoLoop popping the oldest entry (history.pop(0)) instead of the newest
RECURSIVE UndoLoopOldestFirst(_, _, _, _, _)
UndoLoopOldestFirst(av, h, count, restored, printed) ==
    IF count > 0 /\ h # <<>>
    THEN LET idx == h[1]
             rest == Tail(h)
         IN  IF idx \in DOMAIN av /\ ~av[idx]
             THEN UndoLoopOldestFirst([av EXCEPT ![idx] = TRUE], rest, count - 1,
                                      restored + 1, Append(printed, idx))
             ELSE UndoLoopOldestFirst(av, rest, count - 1, restored, printed)
    ELSE [av |-> av, h |-> h, restored |-> restored, printed |-> printed, raised |-> FALSE]

\* UndoLoop without `count -= 1`: the loop runs until the history is empty
RECURSIVE UndoLoopWholeStack(_, _, _, _, _)
UndoLoopWholeStack(av, h, count, restored, printed) ==
    IF count > 0 /\ h # <<>>
    THEN LET idx == h[Len(h)]
             rest == SubSeq(h, 1, Len(h) - 1)
         IN  IF idx \in DOMAIN av /\ ~av[idx]
             THEN UndoLoopWholeStack([av EXCEPT ![idx] = TRUE], rest, count,
                                     restored + 1, Append(printed, idx))
             ELSE UndoLoopWholeStack(av, rest, count, restored, printed)
    ELSE [av |-> av, h |-> h, restored |-> restored, printed |-> printed, raised |-> FALSE]

\* `while count > 0 and history:` of the undo branch; printed: the rows of the
\* "Restored" lines so far; raised: the "Restored" line read a column the
\* frame lacks
RECURSIVE UndoLoop(_, _, _, _, _)
UndoLoop(av, h, count, restored, printed) ==
    IF count > 0 /\ h # <<>>
    THEN LET idx == h[Len(h)]
             rest == SubSeq(h, 1, Len(h) - 1)
         IN  IF idx \in DOMAIN av /\ ~av[idx]
             THEN IF PrintCols \subseteq header
                  THEN UndoLoop([av EXCEPT ![idx] = TRUE], rest, count - 1,
                                restored + 1, Append(printed, idx))
                  ELSE [av |-> [av EXCEPT ![idx] = TRUE], h |-> rest,
                        restored |-> restored, printed |-> printed, raised |-> TRUE]
             ELSE UndoLoop(av, rest, count - 1, restored, printed)
    ELSE [av |-> av, h |-> h, restored |-> restored, printed |-> printed, raised |-> FALSE]

\* the test written as restored < 0
NothingToUndoNever(r) == r.restored < 0

\* whether the undo branch prints "Nothing to undo."
NothingToUndo(r) == r.restored = 0

\* undo <arg> with an argument that is not a number: "Usage: undo [n]"
CmdUndoUsage ==
    /\ pc = "loop"
    /\ \E line \in UndoLines :
          /\ UndoUsage(Strip(line))
    /\ out' = Said("usage", <<>>, 0)
    /\ rt' = NoRt
    /\ UNCHANGED <<pc, nn, header, sort_key, df, available, history, cands>>

\* undo <arg> with digits int() does not parse: ValueError, which main does
\* not catch
CmdUndoRaises ==
    /\ pc = "loop"
    /\ \E line \in UndoLines :
          /\ UndoRaises(Strip(line))
    /\ pc' = "crashed"
    /\ out' = Said("ValueError", <<>>, 0)
    /\ rt' = NoRt
    /\ UNCHANGED <<nn, header, sort_key, df, available, history, cands>>

\* the undo branch from `restored = 0` on, with the count given
UndoBy(count) ==
    LET r == UndoLoop(available, history, count, 0, <<>>)
    IN  /\ available' = r.av
        /\ history' = r.h
        /\ IF r.raised
           THEN /\ pc' = "crashed"
                /\ out' = [Said("KeyError", <<>>, r.restored) EXCEPT !.back = r.printed]
                /\ rt' = NoRt
           ELSE /\ pc' = pc
                /\ \E top \in TopAvailable(r.av, TopOverallN, <<>>) :
                      out' = [Said(IF NothingToUndo(r) THEN "nothing_to_undo" ELSE "restored",
                                   top, r.restored)
                                EXCEPT !.back = r.printed]
                /\ rt' = IF rt.phase = "removed" /\ count = 1
                         THEN [rt EXCEPT !.phase = "undone"]
                         ELSE NoRt
        /\ UNCHANGED <<nn, header, sort_key, df, cands>>

\* undo [n]
CmdUndo ==
    /\ pc = "loop"
    /\ \E line \in UndoLines :
          /\ ~UndoUsage(Strip(line))
          /\ ~UndoRaises(Strip(line))
          /\ UndoBy(UndoCount(Strip(line)))

\* the availability after df.loc[idx, '__available'] = False
Drafted(av, idx) == [av EXCEPT ![idx] = FALSE]

\* mark_drafted marks row idx and returns it; main appends it to history and
\* calls show_top.  The "Removed from available" line reads Position and Team:
\* without them it raises after the flag is cleared and before the append.
RemoveRow(idx) ==
    /\ available' = Drafted(available, idx)
    /\ cands' = <<>>
    /\ IF PrintCols \subseteq header
       THEN /\ history' = Append(history, idx)
            /\ Shown(available', TopOverallN, <<>>, "removed", 0)
            /\ pc' = "loop"
            /\ rt' = [phase |-> "removed", p |-> idx, avail0 |-> available, hist0 |-> history,
                      via |-> IF pc = "disambig" THEN "dialogue" ELSE "direct"]
       ELSE /\ history' = history
            /\ out' = Said("KeyError", <<>>, 0)
            /\ pc' = "crashed"
            /\ rt' = NoRt

\* mark_drafted(df, query) up to its first input(), and main's append and show_top
Removal(query) ==
    LET cs == Candidates(df, available, query)
    IN  /\ UNCHANGED <<nn, header, sort_key, df>>
        /\ IF cs = <<>>
           THEN /\ Shown(available, TopOverallN, <<>>, "no_match", 0)
                /\ rt' = NoRt
                /\ UNCHANGED <<pc, available, history, cands>>
           ELSE IF Len(cs) = 1
           THEN RemoveRow(cs[1])
           ELSE /\ cands' = cs
                /\ pc' = "disambig"
                /\ out' = Said("multiple", cs, 0)
                /\ rt' = NoRt
                /\ UNCHANGED <<available, history>>

\* remove <query> / rm <query>
CmdRemove ==
    /\ pc = "loop"
    /\ \E line \in RemoveLines :
          /\ Removal(RestAfterFirst(Strip(line)))

\* any other line: mark_drafted(df, cmd)
CmdName ==
    /\ pc = "loop"
    /\ \E line \in NameLines :
          /\ Removal(Strip(line))

\* sel.isdigit() and 1 <= int(sel) <= len(tmp)
ValidSelection(sel, k) ==
    IF IsDigitStr(sel) /\ ~IntRaises(sel) THEN 1 <= IntOf(sel) /\ IntOf(sel) <= k ELSE FALSE

\* sel.isdigit() holds and int(sel) raises ValueError
SelectionRaises(sel) == IsDigitStr(sel) /\ IntRaises(sel)

\* "# > " answered with something that is not a number, or a number out of range
SelectAgain ==
    /\ pc = "disambig"
    /\ \E line \in Selections :
          LET sel == Strip(line)
          IN  /\ ~ValidSelection(sel, Len(cands))
              /\ ~SelectionRaises(sel)
              /\ out' = Said(IF IsDigitStr(sel) THEN "out_of_range" ELSE "not_number", cands, 0)
    /\ UNCHANGED <<pc, nn, header, sort_key, df, available, history, cands, rt>>

\* "# > " answered with line, a number of the list
SelectRowLine(line) ==
    /\ pc = "disambig"
    /\ ValidSelection(Strip(line), Len(cands))
    /\ RemoveRow(cands[IntOf(Strip(line))])
    /\ UNCHANGED <<nn, header, sort_key, df>>

SelectRow == \E line \in Selections : SelectRowLine(line)

\* "# > " answered with digits int() does not parse: ValueError, which
\* neither mark_drafted nor main catches
SelectRaises ==
    /\ pc = "disambig"
    /\ \E line \in Selections :
          /\ SelectionRaises(Strip(line))
    /\ pc' = "crashed"
    /\ out' = Said("ValueError", <<>>, 0)
    /\ rt' = NoRt
    /\ UNCHANGED <<nn, header, sort_key, df, available, history, cands>>

\* end of input or an interrupt at "# > ": input() raises outside main's try
SelectEOF ==
    /\ pc = "disambig"
    /\ pc' = "crashed"
    /\ out' = Said("EOFError", <<>>, 0)
    /\ rt' = NoRt
    /\ UNCHANGED <<nn, header, sort_key, df, available, history, cands>>

\* the helper columns load_df adds
HelperCols == {"__name_norm", "__lname", "__available"}

\* df.columns: the kept columns of the file and the helper columns
FrameColumns(cols) == cols \cup HelperCols

\* the loop of the save branch deleting only the two name columns
SavedColumnsKeepFlag(cols) == FrameColumns(cols) \ {"__name_norm", "__lname"}

\* the columns of `avail` after `for c in [...]: del avail[c]`
SavedColumns(cols) == FrameColumns(cols) \ HelperCols

\* save <file>: avail = df[df['__available']].copy() without the helper
\* columns is written, in frame order
CmdSave ==
    /\ pc = "loop"
    /\ SaveLines # {}
    /\ out' = [Said("saved", IndexOrder(AvailRows(df, available)), 0)
                 EXCEPT !.cols = SavedColumns(header)]
    /\ rt' = NoRt
    /\ UNCHANGED <<pc, nn, header, sort_key, df, available, history, cands>>

\* help / h / ?
CmdHelp ==
    /\ pc = "loop"
    /\ HelpLines # {}
    /\ out' = Said("help", <<>>, 0)
    /\ rt' = NoRt
    /\ UNCHANGED <<pc, nn, header, sort_key, df, available, history, cands>>

\* quit / exit / q
CmdQuit ==
    /\ pc = "loop"
    /\ QuitLines # {}
    /\ pc' = "done"
    /\ out' = Said("bye", <<>>, 0)
    /\ rt' = NoRt
    /\ UNCHANGED <<nn, header, sort_key, df, available, history, cands>>

\* end of input or an interrupt at "> ": "Bye!" and break
ReadEOF ==
    /\ pc = "loop"
    /\ pc' = "done"
    /\ out' = Said("bye", <<>>, 0)
    /\ rt' = NoRt
    /\ UNCHANGED <<nn, header, sort_key, df, available, history, cands>>

Next ==
    \/ LoadFail
    \/ Load
    \/ CmdEmpty
    \/ CmdPosition
    \/ CmdList
    \/ CmdTop
    \/ CmdUndoUsage
    \/ CmdUndoRaises
    \/ CmdUndo
    \/ CmdRemove
    \/ CmdName
    \/ SelectAgain
    \/ SelectRow
    \/ SelectRaises
    \/ SelectEOF
    \/ CmdSave
    \/ CmdHelp
    \/ CmdQuit
    \/ ReadEOF

Spec == Init /\ [][Next]_vars

(***************************************************************************)
(* Name Normalizer on its own: normalize_name and last_name applied to     *)
(* names drawn from all short strings over letters, blanks, the apostrophe *)
(* and a character that is removed.                                        *)
(***************************************************************************)
\* the characters of the names drawn
NameChars == {"a", "J", "r", "v", " ", "'", "."}

RECURSIVE StringsUpTo(_)
StringsUpTo(n) ==
    IF n = 0 THEN {<<>>}
    ELSE LET S == StringsUpTo(n - 1)
         IN  S \cup {Append(x, c) : x \in S, c \in NameChars}

\* the names passed: every string of at most MaxNameLen characters, and
\* "John Smith"
NameInputs ==
    StringsUpTo(MaxNameLen) \cup { <<"J","o","h","n"," ","S","m","i","t","h">> }

\* spellings of the suffix tokens
SuffixSpellings ==
    { <<"j","r">>, <<"S","r">>, <<"I","I">>, <<"i","i","i">>, <<"I","I","I">>,
      <<"i","V">>, <<"V">> }

\* whitespace and a suffix, to follow a name
SuffixTails == {ws \o sp : ws \in { <<" ">>, <<"\t"," ">> }, sp \in SuffixSpellings}

NameInit ==
    /\ pc = "names"
    /\ header = {}
    /\ sort_key = "None"
    /\ df = <<>>
    /\ available = <<>>
    /\ history = <<>>
    /\ cands = <<>>
    /\ out = Said("none", <<>>, 0)
    /\ rt = NoRt
    /\ nn \in {NameCalls(x) : x \in NameInputs}

NameFrame == UNCHANGED <<pc, header, sort_key, df, available, history, cands, out, rt>>

\* normalize_name(x)
NormalizeName ==
    /\ pc = "names"
    /\ nn.norm = <<>>
    /\ nn' = [nn EXCEPT !.norm = <<normalize_name(nn.x)>>]
    /\ NameFrame

\* normalize_name of what normalize_name(x) returned
NormalizeAgain ==
    /\ pc = "names"
    /\ nn.norm # <<>>
    /\ nn.again = <<>>
    /\ nn' = [nn EXCEPT !.again = <<normalize_name(nn.norm[1])>>]
    /\ NameFrame

\* last_name(x)
LastName ==
    /\ pc = "names"
    /\ nn.again # <<>>
    /\ nn.lname = <<>>
    /\ nn' = [nn EXCEPT !.lname = <<last_name(nn.x)>>]
    /\ NameFrame

\* normalize_name(x followed by whitespace and a suffix)
NormalizeSuffixed ==
    /\ pc = "names"
    /\ nn.lname # <<>>
    /\ nn.sfx = <<>>
    /\ \E t \in SuffixTails :
          nn' = [nn EXCEPT !.tail = t, !.sfx = <<normalize_name(nn.x \o t)>>]
    /\ NameFrame

\* last_name(x followed by whitespace and a suffix)
LastNameSuffixed ==
    /\ pc = "names"
    /\ nn.sfx # <<>>
    /\ nn.lsfx = <<>>
    /\ nn' = [nn EXCEPT !.lsfx = <<last_name(nn.x \o nn.tail)>>]
    /\ NameFrame

NameNext ==
    \/ NormalizeName
    \/ NormalizeAgain
    \/ LastName
    \/ NormalizeSuffixed
    \/ LastNameSuffixed

NameSpec == NameInit /\ [][NameNext]_vars

(***************************************************************************)
(* Removal by full name: a file of two rows, the first with a drawn name   *)
(* that has a space and a letter, is loaded, and `remove <that name>` is   *)
(* typed.                                                                  *)
(***************************************************************************)
\* the names drawn: cells of the Full Name column with a space and a letter
SpacedNames ==
    {x \in NameInputs : " " \in Range(x) /\ \E j \in DOMAIN x : IsAlpha(x[j])}

\* the other row's name: "a v'a"
OtherName == <<"a"," ","v","'","a">>

\* the frame load_df gives for the file of the two rows, sorted by AdjPts
NamedFrame(x) ==
    << WithHelpers([name |-> x, position |-> <<"R","B">>, adj |-> 20, proj |-> 10,
                    rank |-> 1]),
       WithHelpers([name |-> OtherName, position |-> <<"W","R">>, adj |-> 10, proj |-> 5,
                    rank |-> 2]) >>

\* the loop awaits its next command; the other player may have been removed
ResolveInit ==
    /\ pc = "loop"
    /\ header = AllColumns
    /\ sort_key = ChooseSortKey(header)
    /\ nn \in {NameCalls(x) : x \in SpacedNames}
    /\ df = NamedFrame(nn.x)
    /\ \/ available = <<TRUE, TRUE>> /\ history = <<>>
       \/ available = <<TRUE, FALSE>> /\ history = <<2>>
    /\ cands = <<>>
    /\ out = Said("none", <<>>, 0)
    /\ rt = NoRt

\* the line `remove <full name>` is typed: main's remove branch
RemoveByFullName ==
    /\ pc = "loop"
    /\ out.msg = "none"
    /\ LET cmd == Strip(<<"r","e","m","o","v","e"," ">> \o nn.x)
       IN  /\ Kind(cmd) = "remove"
           /\ Removal(RestAfterFirst(cmd))

ResolveNext == RemoveByFullName

ResolveSpec == ResolveInit /\ [][ResolveNext]_vars

(***************************************************************************)
(* Properties.                                                             *)
(***************************************************************************)
\* the position codes the properties probe: "RB", "qb", "K"
PosProbes == { <<"R","B">>, <<"q","b">>, <<"K">> }

\* pos = <<>> is the call without a position
PosArgs == PosProbes \cup {<<>>}

Loaded == pc \in {"loop", "disambig", "done", "crashed"}

\* C1: a removal that resolves to player p, followed at once by `undo` with
\* count 1, leaves p available, every availability flag and the history stack
\* as they were before the removal, and every topAvailable(n, pos) result
\* unchanged.
C1_RemoveUndoRoundTrip ==
    rt.phase = "undone" =>
        /\ available[rt.p]
        /\ available = rt.avail0
        /\ history = rt.hist0
        /\ \A n \in 1..MaxN : \A pos \in PosArgs :
              TopAvailable(available, n, pos) = TopAvailable(rt.avail0, n, pos)

\* a removal chosen in the dialogue, with an earlier removal still on the
\* stack, has just been undone
C1_Witness ==
    /\ rt.phase = "undone"
    /\ rt.via = "dialogue"
    /\ rt.hist0 # <<>>
    /\ pc = "loop"

\* C2: a query (such as the single word "mab" against "Di Mabo") whose
\* normalized form is a substring of exactly one available player's
\* normalized name resolves to that one player.
C2_FragmentResolvesUnique ==
    Loaded =>
        \A q \in Queries :
            LET hits == Tier1Rows(df, available, normalize_name(Strip(q)))
            IN  Cardinality(hits) = 1 => Range(Candidates(df, available, q)) = hits

\* a query without whitespace
BareSurname(q) == ~(\E i \in DOMAIN q : IsSpace(q[i]))

\* the listing half of C3
C3_ListsSurnameMatches ==
    Loaded =>
        \A q \in Queries :
            LET same == Tier2Rows(df, available, LettersOnly(q))
            IN  (BareSurname(q) /\ Cardinality(same) >= 2)
                    => Candidates(df, available, q) = IndexOrder(same)

\* the selection half of C3, of one step
C3_SelectionRemovesKth ==
    \A line \in Selections :
        (/\ SelectRowLine(line)
         /\ \E q \in Queries :
               /\ BareSurname(q)
               /\ cands = IndexOrder(Tier2Rows(df, available, LettersOnly(q))))
        => LET k == IntOf(Strip(line))
           IN  /\ available' = Drafted(available, cands[k])
               /\ history' = Append(history, cands[k])
               /\ \A j \in DOMAIN cands : j # k => available'[cands[j]]

\* C3: a bare surname that equals the last-name token of K >= 2 available
\* players lists exactly those K players in pool order, and choosing k marks
\* exactly the k-th listed player unavailable, pushes exactly that player onto
\* the history stack and leaves the other candidates available.
C3_SurnameDisambiguation == [](C3_ListsSurnameMatches) /\ [][C3_SelectionRemovesKth]_vars

\* C4: an undo with a numeric count n >= 0 reports "nothing to undo" only if
\* the history stack was empty when the invocation began.
C4_NothingToUndoOnlyWhenEmpty ==
    [][(out'.msg = "nothing_to_undo" /\ CmdUndo) => history = <<>>]_vars

\* C5: undo with any numeric count on an empty history reports "nothing to
\* undo", changes no availability flag, leaves the history empty, and the loop
\* keeps awaiting the next command.
C5_UndoOnEmptyHistory ==
    [][(pc = "loop" /\ history = <<>> /\ CmdUndo)
          => /\ out'.msg = "nothing_to_undo"
             /\ available' = available
             /\ history' = <<>>
             /\ pc' = "loop"]_vars

\* `undo` has been answered with "Nothing to undo." on an empty history
C5_Witness ==
    /\ pc = "loop"
    /\ out.msg = "nothing_to_undo"
    /\ history = <<>>
    /\ \A i \in DOMAIN available : available[i]

\* C6: a source without the name column or without the position column never
\* reaches the command loop.
C6_RequiredColumns ==
    ("Full Name" \notin header \/ "Position" \notin header) => pc \in {"start", "load_error"}

\* whether key value a sorts no later than b in the direction asc, NaN last
NoLater(a, b, asc) == b = NaN \/ (a # NaN /\ ~Before(b, a, asc))

\* C7: a source with neither points column fails to load and the loop never
\* starts; otherwise the primary sort key is the adjusted points if present,
\* else the projected points, and the pool is in descending order of it.
C7_PrimarySortKey ==
    /\ ({"AdjPts", "ProjPts"} \cap header = {}) => pc \in {"start", "load_error"}
    /\ (pc # "start" /\ {"AdjPts", "ProjPts"} \cap header # {})
          => sort_key = (IF "AdjPts" \in header THEN "AdjPts" ELSE "ProjPts")
    /\ Loaded =>
          \A i, j \in DOMAIN df :
              i < j => NoLater(Cell(df[i], sort_key), Cell(df[j], sort_key), FALSE)

\* a file with projected points only has been loaded and the loop runs
C7_Witness ==
    /\ pc = "loop"
    /\ "AdjPts" \notin header
    /\ sort_key = "ProjPts"
    /\ history # <<>>

\* C8: a player removed and not since restored is in no topAvailable result
\* and is no Matcher candidate, in neither tier, so it cannot be removed again.
C8_RemovedExcluded ==
    Loaded =>
        \A i \in DOMAIN df :
            ~available[i] =>
                /\ \A n \in 1..MaxN : \A pos \in PosArgs :
                      \A top \in TopAvailable(available, n, pos) : i \notin Range(top)
                /\ \A q \in Queries :
                      /\ i \notin Tier1Rows(df, available, normalize_name(Strip(q)))
                      /\ i \notin Tier2Rows(df, available, LettersOnly(Strip(q)))
                      /\ i \notin Range(Candidates(df, available, q))
                /\ i \notin Range(cands)

\* a removed "Bo" is still on the history stack while the surname query "bo"
\* and the overall view are open to the remaining players
C8_Witness ==
    /\ pc = "loop"
    /\ out.msg = "removed"
    /\ \E i \in DOMAIN df :
          /\ ~available[i]
          /\ i \in Range(history)
          /\ df[i].lname = <<"b","o">>
    /\ Candidates(df, available, <<"b","o">>) # <<>>

\* whether row i qualifies for topAvailable(n, pos): available, and at that
\* position when one is given
Qualifies(i, pos) ==
    available[i] /\ (pos = <<>> \/ Upper(df[i].position) = Upper(pos))

Qualifying(pos) == {i \in DOMAIN df : Qualifies(i, pos)}

\* C9: for every n >= 1 and position code pos, topAvailable(n, pos) returns at
\* most n rows, all available and all at position pos whatever the letter
\* case, even when more than n qualify; when nothing qualifies the result is
\* the empty sequence and not an error.
C9_TopAvailableBounded ==
    Loaded =>
        \A n \in 1..MaxN : \A pos \in PosProbes :
            /\ ~ShowTopRaises(header, pos)
            /\ \A top \in TopAvailable(available, n, pos) :
                  /\ Len(top) <= n
                  /\ \A k \in DOMAIN top : Qualifies(top[k], pos)
                  /\ Qualifying(pos) = {} => top = <<>>

\* the column and direction the view of pos is ordered by
ViewKey(pos) == IF pos = <<>> /\ "Rank" \in header THEN "Rank" ELSE sort_key
ViewAscending(pos) == pos = <<>> /\ "Rank" \in header

C11_SaveWritesAvailable ==
    [][(pc = "loop" /\ CmdSave)
          => /\ out'.msg = "saved"
             /\ Range(out'.top) = {i \in DOMAIN df : available[i]}
             /\ Len(out'.top) = Cardinality(Range(out'.top))
             /\ out'.cols \cap {"__name_norm", "__lname", "__available"} = {}
             /\ out'.cols = header
             /\ available' = available
             /\ history' = history
             /\ pc' = "loop"]_vars

\* the board has been saved with one player removed and others remaining
C11_Witness ==
    /\ pc = "loop"
    /\ out.msg = "saved"
    /\ history # <<>>
    /\ out.top # <<>>
    /\ \E i \in DOMAIN df : ~available[i] /\ i \notin Range(out.top)
    /\ "Position" \in out.cols

\* C12: end of input or an interrupt at a blocking read, the command read or
\* the selection read of an open dialogue, is an implicit quit: a farewell is
\* printed and the loop ends normally, not with an error, and no availability
\* flag and no history entry changes.
C12_EndOfInputIsQuit ==
    [][((pc = "loop" /\ ReadEOF) \/ (pc = "disambig" /\ SelectEOF))
          => /\ pc' = "done"
             /\ out'.msg = "bye"
             /\ available' = available
             /\ history' = history]_vars

\* the queries the typed lines hand to mark_drafted
TypedQueries ==
    {RestAfterFirst(Strip(line)) : line \in RemoveLines} \cup {Strip(line) : line \in NameLines}

\* each typed query q with whether it has a space and a letter, its
\* normalized form and its letters, lowercased
QueryForms ==
    { [q |-> q,
       spaced |-> " " \in Range(q) /\ (\E j \in DOMAIN q : IsAlpha(q[j])),
       qn |-> normalize_name(Strip(q)),
       ql |-> LettersOnly(Strip(q))] : q \in TypedQueries }

\* no available player matches the typed query of f in either tier
NoCandidate(f) ==
    /\ f.spaced => Tier1Rows(df, available, f.qn) = {}
    /\ Tier2Rows(df, available, f.ql) = {}

\* what a removal, whatever its outcome, says
RemovalSaid == {"no_match", "removed", "multiple", "KeyError"}

\* C13: an `undo <arg>` whose argument is not numeric (usage error) and a name
\* query, explicit or implicit, that resolves to no candidate each leave every
\* availability flag and the history stack as they were, push nothing, and
\* the loop awaits the next command.  The undo lines whose argument is not a
\* decimal number are those of CmdUndoUsage and CmdUndoRaises.
C13_NonFatalErrorsChangeNothing ==
    [][(/\ pc = "loop"
        /\ out'.msg \in RemovalSaid \cup {"usage", "ValueError"}
        /\ \/ CmdUndoUsage
           \/ CmdUndoRaises
           \/ \E f \in QueryForms : NoCandidate(f) /\ Removal(f.q))
          => /\ available' = available
             /\ history' = history
             /\ cands' = cands
             /\ pc' = "loop"
             /\ out'.msg \in {"usage", "no_match"}]_vars

\* C14: normalization is idempotent: for every string x, over letters,
\* apostrophes, whitespace and other characters, suffix-only and stripped-away
\* strings included, normalize(normalize(x)) = normalize(x).
C14_NormalizeIdempotent ==
    nn.again # <<>> => nn.again[1] = nn.norm[1]

\* a name whose normalization dropped a suffix token and a removed character
\* has been normalized twice
C14_Witness ==
    /\ nn.again # <<>>
    /\ nn.x = <<"a", ".", " ", "v">>
    /\ nn.norm = << <<"a">> >>

\* the tokens of name before any suffix is dropped
RawTokens(name) == Split(Lower(Strip(SelectSeq(name, KeptChar))))

\* C15: for every name x and every suffix token s of {jr, sr, ii, iii, iv, v}
\* in any letter case, normalize(x, whitespace, s) = normalize(x), as for
\* "John Smith III" and "John Smith", and the last token of the suffixed name
\* is the last token of x that is not a suffix.
C15_SuffixStripping ==
    /\ nn.sfx # <<>> => nn.sfx[1] = nn.norm[1]
    /\ nn.lsfx # <<>> =>
          LET kept == SelectSeq(RawTokens(nn.x), LAMBDA t : t \notin SuffixTokens)
          IN  /\ nn.lsfx[1] = nn.lname[1]
              /\ kept # <<>> => nn.lsfx[1] = kept[Len(kept)]

\* "John Smith III" has been normalized to "john smith", last name "smith"
C15_Witness ==
    /\ nn.x = <<"J","o","h","n"," ","S","m","i","t","h">>
    /\ nn.tail = <<" ","I","I","I">>
    /\ nn.sfx = << <<"j","o","h","n"," ","s","m","i","t","h">> >>
    /\ nn.lsfx = << <<"s","m","i","t","h">> >>

\* C16: undo is last-in first-out and bounded: with a history of length h,
\* `undo n` pops exactly min(n, h) entries, restores exactly the min(n, h)
\* most recently removed players in reverse order of their removal, leaves
\* the earlier entries and every other player's availability unchanged and
\* pushes nothing; with n >= h every player ends available and the history
\* is empty.
C16_UndoLifoBounded ==
    [][\A n \in 0..MaxUndo :
          (pc = "loop" /\ UndoBy(n)) =>
              LET h == Len(history)
                  k == Min(n, h)
                  popped == {history[j] : j \in (h - k + 1)..h}
              IN  /\ history' = SubSeq(history, 1, h - k)
                  /\ out'.back = [j \in 1..k |-> history[h + 1 - j]]
                  /\ out'.n = k
                  /\ \A i \in popped : ~available[i]
                  /\ available' = [i \in DOMAIN available |-> available[i] \/ i \in popped]
                  /\ n >= h => history' = <<>> /\ \A i \in DOMAIN available : available'[i]
                  /\ pc' = "loop"]_vars

\* `undo 2` has restored the last two of three removed players, the last
\* removed first, and the first removal is still on the stack
C16_Witness ==
    /\ pc = "loop"
    /\ out.msg = "restored"
    /\ Len(out.back) = 2
    /\ Len(history) = 1
    /\ \A i \in DOMAIN available : available[i] <=> i \notin Range(history)
    /\ out.back[1] < out.back[2]

\* C17: while the dialogue over K >= 2 candidates is open, an input that is
\* not an integer in 1..K changes no availability flag and no history entry
\* and is followed by a new prompt; the dialogue ends only on a valid k, and
\* nothing is marked or pushed before that selection.
C17_DisambiguationProtocol ==
    [][pc = "disambig" =>
          /\ Len(cands) >= 2
          /\ \/ SelectRow
             \/ /\ pc' = "disambig"
                /\ out'.msg \in {"not_number", "out_of_range"}
                /\ available' = available
                /\ history' = history
                /\ cands' = cands]_vars

\* the candidates C18 states for the typed query of f
ExpectedCandidates(f) ==
    LET hits == {i \in DOMAIN df : available[i] /\ Contains(df[i].name_norm, f.qn)}
    IN  IF f.spaced /\ hits # {}
        THEN hits
        ELSE {i \in DOMAIN df : available[i] /\ df[i].lname = f.ql}

C19_HistoryMatchesUnavailable ==
    Loaded =>
        /\ \A j, k \in DOMAIN history : history[j] = history[k] => j = k
        /\ \A j \in DOMAIN history : ~available[history[j]]
        /\ \A i \in DOMAIN available :
              ~available[i] => Cardinality({j \in DOMAIN history : history[j] = i}) = 1
        /\ Len(history) = Cardinality({i \in DOMAIN available : ~available[i]})

\* the available players other than row 1 whose normalized name contains
\* that of row 1
OthersContaining ==
    {i \in DOMAIN df \ {1} : available[i] /\ Contains(df[i].name_norm, df[1].name_norm)}

\* C20: for an available player whose full name has a space and a letter,
\* `remove <that exact full name>` never finds no match: the player is the
\* one candidate when no other available player's normalized name contains
\* its normalized name, and is among the candidates of the dialogue otherwise.
C20_ReachableByFullName ==
    (out.msg # "none" /\ nn.x \in SpacedNames) =>
        /\ out.msg # "no_match"
        /\ out.msg = "removed" => ~available[1] /\ history[Len(history)] = 1
        /\ out.msg = "multiple" => 1 \in Range(cands) /\ available[1]
        /\ out.msg = "removed" <=> OthersContaining = {}

====
